---- MODULE Spec2Model ----
(***************************************************************************)
(* Lookup tables for Quantum Synchrotron photon production                 *)
(* (quantum_sync_engine_tables.hpp): dndt_lookup_table (rate table) and    *)
(* photon_emission_lookup_table (cumulative-distribution table).           *)
(*                                                                         *)
(* Numbers.  A physical value (chi, fraction, rate, probability) is a      *)
(* fixed-point integer p standing for p / 2^FracBits.  A logarithmic value *)
(* is an integer n standing for n / LogScale octaves.  m_log and m_exp are *)
(* the monotone piecewise-linear logarithm and exponential between the     *)
(* two; they are exact on powers of two and round down elsewhere.  NaN is  *)
(* outside the model: values handed to the tables are non-negative.        *)
(***************************************************************************)
EXTENDS Integers, Sequences, FiniteSets, TLC

\* ---------------------------------------------------------------- bounds
FracBits == 4          \* fixed-point bits of a physical value
LogScale == 4          \* logarithmic units per octave
MaxHowMany == 3        \* largest grid resolution per axis
NumPatterns == 4       \* number of value-vector shapes fed to the tables
NumThreads == 2        \* threads that call the read-only operations at once

Unit == 2 ^ FracBits   \* math::one<RealType>

\* std::numeric_limits<RealType>::lowest(), far below every logarithm
Lowest == -1000
\* the value of log(0): below lowest(), recognised by std::isinf
NegInf == Lowest - 1

RealSizes == {4, 8}    \* sizeof(float), sizeof(double)
IntSize == 4           \* sizeof(int)

\* ------------------------------------------------------ math (cmath_overloads)
RECURSIVE Pow2(_)
Pow2(n) == IF n <= 0 THEN 1 ELSE 2 * Pow2(n - 1)

RECURSIVE Log2Floor(_)
Log2Floor(p) == IF p < 2 THEN 0 ELSE 1 + Log2Floor(p \div 2)

isinf(v) == v = NegInf

m_log(p) ==
    IF p = 0 THEN NegInf
    ELSE LET e == Log2Floor(p)
         IN  (e - FracBits) * LogScale + ((p - Pow2(e)) * LogScale) \div Pow2(e)

m_exp(n) ==
    LET e  == n \div LogScale
        f  == n % LogScale
        sh == e + FracBits
    IN  IF sh < 0 THEN 0
        ELSE (Pow2(sh) * (LogScale + f)) \div LogScale

\* product of two physical values
Mul(a, b) == (a * b) \div Unit

\* ------------------------------------------------------ utils (picsar_algo)
linear_interp(x0, x1, y0, y1, x) ==
    y0 + ((y1 - y0) * (x - x0)) \div (x1 - x0)

\* binary search over the indices first .. first+count-1 of the function f:
\* the first index whose value is >= val, first+count when there is none
RECURSIVE picsar_upper_bound_functor(_, _, _, _)
picsar_upper_bound_functor(first, count, val, f) ==
    IF count <= 0 THEN first
    ELSE LET step == count \div 2
             it   == first + step
         IN  IF f[it] < val
             THEN picsar_upper_bound_functor(it + 1, count - step - 1, val, f)
             ELSE picsar_upper_bound_functor(first, step, val, f)

\* ------------------------------------------------------ utils (serialization)
\* the n raw bytes of the integer v, least significant first, two's complement
RECURSIVE put_in(_, _)
put_in(v, n) ==
    IF n = 0 THEN <<>> ELSE <<v % 256>> \o put_in(v \div 256, n - 1)

\* the integer held by the raw bytes b
RECURSIVE get_out(_)
get_out(b) ==
    IF Len(b) = 0 THEN 0
    ELSE IF Len(b) = 1 THEN (IF b[1] >= 128 THEN b[1] - 256 ELSE b[1])
    ELSE b[1] + 256 * get_out(Tail(b))

\* bytes from .. from+n-1 of b (1-based)
Bytes(b, from, n) == SubSeq(b, from, from + n - 1)

RECURSIVE put_in_all(_, _)
put_in_all(vals, n) ==
    IF Len(vals) = 0 THEN <<>>
    ELSE put_in(Head(vals), n) \o put_in_all(Tail(vals), n)

get_n_out(b, from, count, n) ==
    [i \in 1..count |-> get_out(Bytes(b, from + (i - 1) * n, n))]

Zeros(n) == [i \in 1..n |-> 0]

\* the element at 0-based index i of a vector; outside the vector the read is
\* undefined and yields the garbage value g
ReadVal(values, i, g) ==
    IF i >= 0 /\ i < Len(values) THEN values[i + 1] ELSE g

\* --------------------------------------- containers::equispaced_1d_table
T1_ctor(x_min, x_max, values) ==
    [x_min |-> x_min, x_max |-> x_max, x_size |-> x_max - x_min,
     how_many_x |-> Len(values), values |-> values]

T1_get_x_coord(t, i) ==
    t.x_min + (i * t.x_size) \div (t.how_many_x - 1)

T1_interp(t, where_x) ==
    LET idx_left == IF t.how_many_x = 1 THEN 0
                    ELSE ((t.how_many_x - 1) * (where_x - t.x_min)) \div t.x_size
    IN  IF idx_left = t.how_many_x - 1
        THEN t.values[t.how_many_x]
        ELSE linear_interp(T1_get_x_coord(t, idx_left),
                           T1_get_x_coord(t, idx_left + 1),
                           t.values[idx_left + 1], t.values[idx_left + 2],
                           where_x)

T1_get_all_coordinates(t) ==
    [i \in 1..t.how_many_x |->
        IF t.how_many_x = 1 THEN t.x_min ELSE T1_get_x_coord(t, i - 1)]

T1_set_val(t, i, v) ==
    IF i < Len(t.values) THEN [t EXCEPT !.values[i + 1] = v] ELSE t

T1_eq(a, b) ==
    /\ a.x_min = b.x_min
    /\ a.x_max = b.x_max
    /\ a.x_size = b.x_size
    /\ a.how_many_x = b.how_many_x
    /\ a.values = b.values

T1_serialize(t, rs) ==
    put_in(t.how_many_x, IntSize) \o put_in(t.x_min, rs) \o put_in(t.x_max, rs)
        \o put_in_all(t.values, rs)

NoTable1 == [x_min |-> 0, x_max |-> 0, x_size |-> 0, how_many_x |-> 0,
             values |-> <<>>]

\* the table read from raw bytes: [ok, table]
T1_from_bytes(b, rs) ==
    IF Len(b) < IntSize + 2 * rs THEN [ok |-> FALSE, table |-> NoTable1]
    ELSE LET n  == get_out(Bytes(b, 1, IntSize))
             lo == get_out(Bytes(b, IntSize + 1, rs))
             hi == get_out(Bytes(b, IntSize + rs + 1, rs))
         IN  IF n < 0 \/ Len(b) < IntSize + 2 * rs + n * rs
             THEN [ok |-> FALSE, table |-> NoTable1]
             ELSE [ok |-> TRUE,
                   table |-> [x_min |-> lo, x_max |-> hi, x_size |-> hi - lo,
                              how_many_x |-> n,
                              values |-> get_n_out(b, IntSize + 2 * rs + 1, n, rs)]]

\* ------------------------------------------------------------ inputs
\* value-vector shape p at 1-based position i of a vector laid out in rows of
\* cols elements: physical values, zero or a power of two at most two
Pattern(p, i, cols) ==
    LET j == (i - 1) % cols
        r == (i - 1) \div cols
        d == IF p = 1 THEN (cols - 1 - j) + r      \* rising along a row
             ELSE IF p = 2 THEN 1                  \* flat
             ELSE IF p = 3 THEN j + r              \* falling along a row
             ELSE (j + p) % 3
    IN  IF p = 4 THEN (IF j % 2 = 0 THEN 0 ELSE Unit)   \* zero, one, zero, ...
        ELSE IF p = 3 THEN (2 * Unit) \div Pow2(IF d > FracBits THEN FracBits ELSE d)
        ELSE Unit \div Pow2(IF d > FracBits THEN FracBits ELSE d)

ValVector(p, len, cols) == [i \in 1..len |-> Pattern(p, i, cols)]

\* vectors of the right length in every shape, and vectors one shorter and one
\* longer in the first and the last shape
ValVectors(count, cols) ==
    {ValVector(p, count, cols) : p \in 1..NumPatterns}
        \cup {ValVector(p, len, cols) : p \in {1, NumPatterns},
                                         len \in {count - 1, count + 1} \ {0}}

\* what a read outside a vector may find
Garbage == {0, -LogScale}

IsOutArgs == {"null", "false", "true"}     \* bool* is_out: nullptr, or *is_out

\* ------------------------------------------------------------ dndt_lookup_table
DndtParams ==
    {[chi_part_min |-> Unit \div 2, chi_part_max |-> 4 * Unit,
      chi_part_how_many |-> n] : n \in 1..MaxHowMany}

DndtChi == {Unit \div 4, Unit \div 2, 3 * Unit, 4 * Unit, 8 * Unit}

\* sizeof(dndt_lookup_table_params<RealType>): two reals, one int, padded
dndt_sizeof_params(rs) == IF rs = 8 THEN 24 ELSE 12

dndt_params_eq(a, b) ==
    /\ a.chi_part_min = b.chi_part_min
    /\ a.chi_part_max = b.chi_part_max
    /\ a.chi_part_how_many = b.chi_part_how_many

dndt_ctor_params(rs, params) ==
    [kind |-> "dndt", rs |-> rs, m_params |-> params, m_init_flag |-> FALSE,
     m_table |-> T1_ctor(m_log(params.chi_part_min), m_log(params.chi_part_max),
                         Zeros(params.chi_part_how_many))]

dndt_ctor_vals(rs, params, vals) ==
    [kind |-> "dndt", rs |-> rs, m_params |-> params, m_init_flag |-> TRUE,
     m_table |-> T1_ctor(m_log(params.chi_part_min), m_log(params.chi_part_max),
                         vals)]

dndt_put_params(params, rs) ==
    put_in(params.chi_part_min, rs) \o put_in(params.chi_part_max, rs)
        \o put_in(params.chi_part_how_many, IntSize)
        \o Zeros(dndt_sizeof_params(rs) - 2 * rs - IntSize)

dndt_get_params(b, from, rs) ==
    [chi_part_min |-> get_out(Bytes(b, from, rs)),
     chi_part_max |-> get_out(Bytes(b, from + rs, rs)),
     chi_part_how_many |-> get_out(Bytes(b, from + 2 * rs, IntSize))]

\* a byte-array constructor that does not look at the scalar-size byte
dndt_ctor_bytes_untagged(rs, raw_data) ==
    LET min_size == 1 + dndt_sizeof_params(rs)
        none     == dndt_ctor_params(rs, [chi_part_min |-> 1, chi_part_max |-> 2,
                                          chi_part_how_many |-> 1])
    IN  IF Len(raw_data) < min_size
        THEN [exc |-> "truncated", table |-> none]
        ELSE LET params == dndt_get_params(raw_data, 2, rs)
                 inner  == T1_from_bytes(
                              SubSeq(raw_data, min_size + 1, Len(raw_data)), rs)
             IN  IF ~inner.ok
                 THEN [exc |-> "truncated", table |-> none]
                 ELSE [exc |-> "none",
                       table |-> [kind |-> "dndt", rs |-> rs, m_params |-> params,
                                  m_init_flag |-> TRUE, m_table |-> inner.table]]

\* dndt_lookup_table(std::vector<char>&): [exc, table]
dndt_ctor_bytes(rs, raw_data) ==
    LET min_size == 1 + dndt_sizeof_params(rs)
        none     == dndt_ctor_params(rs, [chi_part_min |-> 1, chi_part_max |-> 2,
                                          chi_part_how_many |-> 1])
    IN  IF Len(raw_data) < min_size
        THEN [exc |-> "truncated", table |-> none]
        ELSE IF get_out(Bytes(raw_data, 1, 1)) # rs
        THEN [exc |-> "format_mismatch", table |-> none]
        ELSE LET params == dndt_get_params(raw_data, 2, rs)
                 inner  == T1_from_bytes(
                              SubSeq(raw_data, min_size + 1, Len(raw_data)), rs)
             IN  IF ~inner.ok
                 THEN [exc |-> "truncated", table |-> none]
                 ELSE [exc |-> "none",
                       table |-> [kind |-> "dndt", rs |-> rs, m_params |-> params,
                                  m_init_flag |-> TRUE, m_table |-> inner.table]]

\* an operator== that does not compare the initialization flags
dndt_eq_no_flag(a, b) ==
    /\ dndt_params_eq(a.m_params, b.m_params)
    /\ T1_eq(a.m_table, b.m_table)

dndt_eq(a, b) ==
    /\ dndt_params_eq(a.m_params, b.m_params)
    /\ a.m_init_flag = b.m_init_flag
    /\ T1_eq(a.m_table, b.m_table)

\* the span built by get_view(): chi_part_how_many elements starting at the
\* owner's data; elements past the owner's vector are garbage g
dndt_span(t, g) ==
    [i \in 1..t.m_params.chi_part_how_many |->
        ReadVal(t.m_table.values, i - 1, g)]

\* get_view(): [exc, view]
dndt_get_view(t, g) ==
    IF ~t.m_init_flag
    THEN [exc |-> "invalid_state", view |-> t]
    ELSE [exc |-> "none",
          view |-> dndt_ctor_vals(t.rs, t.m_params, dndt_span(t, g))]

\* a clamp that sends a chi_part above the table to the lower bound
dndt_clamp_to_min(t, chi_part) ==
    IF chi_part < t.m_params.chi_part_min THEN t.m_params.chi_part_min
    ELSE IF chi_part > t.m_params.chi_part_max THEN t.m_params.chi_part_min
    ELSE chi_part

\* the chi_part interp() works with: the argument, or the bound it passed
dndt_clamp(t, chi_part) ==
    IF chi_part < t.m_params.chi_part_min THEN t.m_params.chi_part_min
    ELSE IF chi_part > t.m_params.chi_part_max THEN t.m_params.chi_part_max
    ELSE chi_part

\* *is_out after interp(): written, to true, when chi_part is out of the table
\* and the pointer is not null
dndt_is_out(t, chi_part, is_out) ==
    IF (chi_part < t.m_params.chi_part_min \/ chi_part > t.m_params.chi_part_max)
          /\ is_out # "null"
    THEN "true" ELSE is_out

\* interp(chi_part, is_out): [ret, is_out]
dndt_interp(t, chi_part, is_out) ==
    [ret    |-> m_exp(T1_interp(t.m_table, m_log(dndt_clamp(t, chi_part)))),
     is_out |-> dndt_is_out(t, chi_part, is_out)]

\* an export that refuses a table whose flag is false
dndt_get_all_coordinates_checked(t) ==
    IF ~t.m_init_flag THEN [exc |-> "invalid_state", coords |-> <<>>]
    ELSE LET all_coords == T1_get_all_coordinates(t.m_table)
         IN  [exc |-> "none",
              coords |-> [i \in 1..Len(all_coords) |-> m_exp(all_coords[i])]]

\* get_all_coordinates(): [exc, coords]
dndt_get_all_coordinates(t) ==
    LET all_coords == T1_get_all_coordinates(t.m_table)
    IN  [exc |-> "none",
         coords |-> [i \in 1..Len(all_coords) |-> m_exp(all_coords[i])]]

RECURSIVE dndt_set_loop(_, _, _)
dndt_set_loop(table, vals, i) ==
    IF i >= Len(vals) THEN table
    ELSE dndt_set_loop(T1_set_val(table, i, m_log(vals[i + 1])), vals, i + 1)

\* set_all_vals(vals): [ret, table]
dndt_set_all_vals(t, vals) ==
    IF Len(vals) = t.m_table.how_many_x
    THEN [ret |-> TRUE,
          table |-> [t EXCEPT !.m_table = dndt_set_loop(t.m_table, vals, 0),
                              !.m_init_flag = TRUE]]
    ELSE [ret |-> FALSE, table |-> t]

\* a serialize() without the check of the flag
dndt_serialize_unchecked(t) ==
    [exc |-> "none",
     bytes |-> put_in(t.rs, 1) \o dndt_put_params(t.m_params, t.rs)
                   \o T1_serialize(t.m_table, t.rs)]

\* serialize(): [exc, bytes]
dndt_serialize(t) ==
    IF ~t.m_init_flag
    THEN [exc |-> "invalid_state", bytes |-> <<>>]
    ELSE [exc |-> "none",
          bytes |-> put_in(t.rs, 1) \o dndt_put_params(t.m_params, t.rs)
                        \o T1_serialize(t.m_table, t.rs)]

\* --------------------------------------- containers::equispaced_2d_table
T2_ctor(x_min, x_max, y_min, y_max, how_many_x, how_many_y, values) ==
    [x_min |-> x_min, x_max |-> x_max, y_min |-> y_min, y_max |-> y_max,
     x_size |-> x_max - x_min, y_size |-> y_max - y_min,
     how_many_x |-> how_many_x, how_many_y |-> how_many_y, values |-> values]

T2_get_x_coord(t, i) ==
    t.x_min + (i * t.x_size) \div (t.how_many_x - 1)

T2_get_y_coord(t, j) ==
    IF t.how_many_y = 1 THEN t.y_min
    ELSE t.y_min + (j * t.y_size) \div (t.how_many_y - 1)

\* interpolation along the first axis in the column j; g is what a read
\* outside the stored vector finds
T2_interp_first_coord(t, where_x, j, g) ==
    LET raw_left == ((t.how_many_x - 1) * (where_x - t.x_min)) \div t.x_size
        idx_left == IF raw_left = t.how_many_x - 1 THEN t.how_many_x - 2
                    ELSE raw_left
    IN  linear_interp(T2_get_x_coord(t, idx_left),
                      T2_get_x_coord(t, idx_left + 1),
                      ReadVal(t.values, idx_left * t.how_many_y + j, g),
                      ReadVal(t.values, (idx_left + 1) * t.how_many_y + j, g),
                      where_x)

T2_get_all_coordinates(t) ==
    [k \in 1..(t.how_many_x * t.how_many_y) |->
        <<T2_get_x_coord(t, (k - 1) \div t.how_many_y),
          T2_get_y_coord(t, (k - 1) % t.how_many_y)>>]

T2_set_val(t, i, v) ==
    IF i < Len(t.values) THEN [t EXCEPT !.values[i + 1] = v] ELSE t

T2_eq(a, b) ==
    /\ a.x_min = b.x_min /\ a.x_max = b.x_max
    /\ a.y_min = b.y_min /\ a.y_max = b.y_max
    /\ a.x_size = b.x_size /\ a.y_size = b.y_size
    /\ a.how_many_x = b.how_many_x /\ a.how_many_y = b.how_many_y
    /\ a.values = b.values

T2_serialize(t, rs) ==
    put_in(t.how_many_x, IntSize) \o put_in(t.how_many_y, IntSize)
        \o put_in(t.x_min, rs) \o put_in(t.x_max, rs)
        \o put_in(t.y_min, rs) \o put_in(t.y_max, rs)
        \o put_in_all(t.values, rs)

NoTable2 == T2_ctor(0, 0, 0, 0, 0, 0, <<>>)

\* the table read from raw bytes: [ok, table]; the resolutions in the header
\* say how many samples are read
T2_from_bytes(b, rs) ==
    LET hdr == 2 * IntSize + 4 * rs
    IN  IF Len(b) < hdr THEN [ok |-> FALSE, table |-> NoTable2]
        ELSE LET nx == get_out(Bytes(b, 1, IntSize))
                 ny == get_out(Bytes(b, IntSize + 1, IntSize))
                 r(k) == get_out(Bytes(b, 2 * IntSize + k * rs + 1, rs))
             IN  IF nx < 0 \/ ny < 0 \/ Len(b) < hdr + nx * ny * rs
                 THEN [ok |-> FALSE, table |-> NoTable2]
                 ELSE [ok |-> TRUE,
                       table |-> T2_ctor(r(0), r(1), r(2), r(3), nx, ny,
                                         get_n_out(b, hdr + 1, nx * ny, rs))]

\* ------------------------------------------------ photon_emission_lookup_table
PhotParams ==
    {[chi_part_min |-> Unit \div 2, chi_part_max |-> 4 * Unit,
      frac_min |-> Unit \div 4,
      chi_part_how_many |-> 2, frac_how_many |-> ny] : ny \in 1..MaxHowMany}

PhotChi == {Unit \div 4, Unit \div 2, 3 * Unit, 4 * Unit, 8 * Unit}

\* unf_zero_one_minus_epsi: a number in [0,1)
PhotU == {0, Unit \div 2, Unit - 1}

\* sizeof(photon_emission_lookup_table_params<RealType>): three reals, two ints
phot_sizeof_params(rs) == IF rs = 8 THEN 32 ELSE 20

phot_params_eq(a, b) ==
    /\ a.chi_part_min = b.chi_part_min
    /\ a.chi_part_max = b.chi_part_max
    /\ a.frac_min = b.frac_min
    /\ a.chi_part_how_many = b.chi_part_how_many
    /\ a.frac_how_many = b.frac_how_many

phot_table(params, vals) ==
    T2_ctor(m_log(params.chi_part_min), m_log(params.chi_part_max),
            m_log(params.frac_min), m_log(Unit),
            params.chi_part_how_many, params.frac_how_many, vals)

phot_ctor_params(rs, params) ==
    [kind |-> "phot", rs |-> rs, m_params |-> params, m_init_flag |-> FALSE,
     m_table |-> phot_table(params,
                    Zeros(params.chi_part_how_many * params.frac_how_many))]

phot_ctor_vals(rs, params, vals) ==
    [kind |-> "phot", rs |-> rs, m_params |-> params, m_init_flag |-> TRUE,
     m_table |-> phot_table(params, vals)]

phot_put_params(params, rs) ==
    put_in(params.chi_part_min, rs) \o put_in(params.chi_part_max, rs)
        \o put_in(params.frac_min, rs)
        \o put_in(params.chi_part_how_many, IntSize)
        \o put_in(params.frac_how_many, IntSize)
        \o Zeros(phot_sizeof_params(rs) - 3 * rs - 2 * IntSize)

phot_get_params(b, from, rs) ==
    [chi_part_min |-> get_out(Bytes(b, from, rs)),
     chi_part_max |-> get_out(Bytes(b, from + rs, rs)),
     frac_min |-> get_out(Bytes(b, from + 2 * rs, rs)),
     chi_part_how_many |-> get_out(Bytes(b, from + 3 * rs, IntSize)),
     frac_how_many |-> get_out(Bytes(b, from + 3 * rs + IntSize, IntSize))]

\* a byte-array constructor that checks the scalar-size byte before the length
phot_ctor_bytes_tag_first(rs, raw_data) ==
    LET min_size == 1 + phot_sizeof_params(rs)
        none     == phot_ctor_params(rs, [chi_part_min |-> 1, chi_part_max |-> 2,
                                          frac_min |-> 1,
                                          chi_part_how_many |-> 1,
                                          frac_how_many |-> 1])
    IN  IF Len(raw_data) >= 1 /\ get_out(Bytes(raw_data, 1, 1)) # rs
        THEN [exc |-> "format_mismatch", table |-> none]
        ELSE IF Len(raw_data) < min_size
        THEN [exc |-> "truncated", table |-> none]
        ELSE LET params == phot_get_params(raw_data, 2, rs)
                 inner  == T2_from_bytes(
                              SubSeq(raw_data, min_size + 1, Len(raw_data)), rs)
             IN  IF ~inner.ok
                 THEN [exc |-> "truncated", table |-> none]
                 ELSE [exc |-> "none",
                       table |-> [kind |-> "phot", rs |-> rs, m_params |-> params,
                                  m_init_flag |-> TRUE, m_table |-> inner.table]]

\* photon_emission_lookup_table(std::vector<char>&): [exc, table]
phot_ctor_bytes(rs, raw_data) ==
    LET min_size == 1 + phot_sizeof_params(rs)
        none     == phot_ctor_params(rs, [chi_part_min |-> 1, chi_part_max |-> 2,
                                          frac_min |-> 1,
                                          chi_part_how_many |-> 1,
                                          frac_how_many |-> 1])
    IN  IF Len(raw_data) < min_size
        THEN [exc |-> "truncated", table |-> none]
        ELSE IF get_out(Bytes(raw_data, 1, 1)) # rs
        THEN [exc |-> "format_mismatch", table |-> none]
        ELSE LET params == phot_get_params(raw_data, 2, rs)
                 inner  == T2_from_bytes(
                              SubSeq(raw_data, min_size + 1, Len(raw_data)), rs)
             IN  IF ~inner.ok
                 THEN [exc |-> "truncated", table |-> none]
                 ELSE [exc |-> "none",
                       table |-> [kind |-> "phot", rs |-> rs, m_params |-> params,
                                  m_init_flag |-> TRUE, m_table |-> inner.table]]

phot_eq(a, b) ==
    /\ phot_params_eq(a.m_params, b.m_params)
    /\ a.m_init_flag = b.m_init_flag
    /\ T2_eq(a.m_table, b.m_table)

\* the span built by get_view(): chi_part_how_many * frac_how_many elements
\* starting at the owner's data; elements past the owner's vector are garbage
phot_span(t, g) ==
    [i \in 1..(t.m_params.chi_part_how_many * t.m_params.frac_how_many) |->
        ReadVal(t.m_table.values, i - 1, g)]

\* get_view(): [exc, view]
phot_get_view(t, g) ==
    IF ~t.m_init_flag
    THEN [exc |-> "invalid_state", view |-> t]
    ELSE [exc |-> "none",
          view |-> phot_ctor_vals(t.rs, t.m_params, phot_span(t, g))]

\* the chi_part the search works with: the argument, or the bound it passed
phot_clamp(t, chi_part) ==
    IF chi_part < t.m_params.chi_part_min THEN t.m_params.chi_part_min
    ELSE IF chi_part > t.m_params.chi_part_max THEN t.m_params.chi_part_max
    ELSE chi_part

\* an is_out that is also set on the two bounds of the table
phot_is_out_inclusive(t, chi_part, is_out) ==
    IF (chi_part <= t.m_params.chi_part_min \/ chi_part >= t.m_params.chi_part_max)
          /\ is_out # "null"
    THEN "true" ELSE is_out

\* *is_out after interp(): written, to true, when chi_part is out of the table
\* and the pointer is not null
phot_is_out(t, chi_part, is_out) ==
    IF (chi_part < t.m_params.chi_part_min \/ chi_part > t.m_params.chi_part_max)
          /\ is_out # "null"
    THEN "true" ELSE is_out

\* the column the search looks at: the log-probabilities at log_e_chi_part
phot_column(t, log_e_chi_part, g) ==
    [i \in 0..(t.m_params.frac_how_many - 1) |->
        T2_interp_first_coord(t.m_table, log_e_chi_part, i, g)]

\* a search that leaves out the last index of the fraction axis
phot_search_short(t, log_prob, f) ==
    picsar_upper_bound_functor(0, t.m_params.frac_how_many - 1, log_prob, f)

\* the search over the indices 0 .. frac_how_many-1 of the column f
phot_search(t, log_prob, f) ==
    picsar_upper_bound_functor(0, t.m_params.frac_how_many, log_prob, f)

\* saturated results scaled by the clamped chi_part
phot_saturated_clamped(t, upper_frac_index, chi_part) ==
    IF upper_frac_index = 0
    THEN Mul(t.m_params.frac_min, phot_clamp(t, chi_part))
    ELSE phot_clamp(t, chi_part)

\* the result when the search ends at 0 or at frac_how_many
phot_saturated(t, upper_frac_index, chi_part) ==
    IF upper_frac_index = 0
    THEN Mul(t.m_params.frac_min, chi_part)
    ELSE chi_part

\* an interpolation with the roles of probabilities and fractions exchanged
phot_log_frac_swapped(t, f, upper_frac_index, log_prob) ==
    LET lower_frac_index == upper_frac_index - 1
        upper_log_frac == T2_get_y_coord(t.m_table, upper_frac_index)
        lower_log_frac == T2_get_y_coord(t.m_table, lower_frac_index)
        lower_log_prob == f[lower_frac_index]
        upper_log_prob == f[upper_frac_index]
    IN  [lower_log_frac |-> lower_log_frac, upper_log_frac |-> upper_log_frac,
         log_frac |-> linear_interp(lower_log_frac, upper_log_frac,
                                    lower_log_prob, upper_log_prob, log_prob)]

\* the bracketed case: the log-fraction at log_prob between the two grid
\* points around it
phot_log_frac(t, f, upper_frac_index, log_prob) ==
    LET lower_frac_index == upper_frac_index - 1
        upper_log_frac == T2_get_y_coord(t.m_table, upper_frac_index)
        lower_log_frac == T2_get_y_coord(t.m_table, lower_frac_index)
        lower_log_prob == f[lower_frac_index]
        upper_log_prob == f[upper_frac_index]
    IN  [lower_log_frac |-> lower_log_frac, upper_log_frac |-> upper_log_frac,
         log_frac |-> linear_interp(lower_log_prob, upper_log_prob,
                                    lower_log_frac, upper_log_frac, log_prob)]

\* interp(chi_part, unf_zero_one_minus_epsi, is_out); g is what a read outside
\* the stored vector finds
phot_interp(t, chi_part, unf_zero_one_minus_epsi, is_out, g) ==
    LET log_e_chi_part == m_log(phot_clamp(t, chi_part))
        log_prob == m_log(Unit - unf_zero_one_minus_epsi)
        f == phot_column(t, log_e_chi_part, g)
        upper_frac_index == phot_search(t, log_prob, f)
        base == [is_out |-> phot_is_out(t, chi_part, is_out),
                 upper_frac_index |-> upper_frac_index,
                 bracketed |-> FALSE, log_frac |-> 0,
                 lower_log_frac |-> 0, upper_log_frac |-> 0, ret |-> 0]
    IN  IF upper_frac_index = 0 \/ upper_frac_index = t.m_params.frac_how_many
        THEN [base EXCEPT !.ret = phot_saturated(t, upper_frac_index, chi_part)]
        ELSE LET b == phot_log_frac(t, f, upper_frac_index, log_prob)
             IN  [base EXCEPT !.bracketed = TRUE, !.log_frac = b.log_frac,
                              !.lower_log_frac = b.lower_log_frac,
                              !.upper_log_frac = b.upper_log_frac,
                              !.ret = Mul(m_exp(b.log_frac), chi_part)]

\* get_all_coordinates(): [exc, coords]
phot_get_all_coordinates(t) ==
    LET all_coords == T2_get_all_coordinates(t.m_table)
    IN  [exc |-> "none",
         coords |-> [i \in 1..Len(all_coords) |->
                        <<m_exp(all_coords[i][1]),
                          Mul(m_exp(all_coords[i][2]), m_exp(all_coords[i][1]))>>]]

RECURSIVE phot_set_loop(_, _, _)
phot_set_loop(table, vals, i) ==
    IF i >= Len(vals) THEN table
    ELSE LET val == m_log(vals[i + 1])
         IN  phot_set_loop(
                 T2_set_val(table, i, IF isinf(val) THEN Lowest ELSE val),
                 vals, i + 1)

\* a set_all_vals that clears the flag before it looks at the length
phot_set_all_vals_clearing(t, vals) ==
    IF Len(vals) = t.m_table.how_many_x * t.m_table.how_many_y
    THEN [ret |-> TRUE,
          table |-> [t EXCEPT !.m_table = phot_set_loop(t.m_table, vals, 0),
                              !.m_init_flag = TRUE]]
    ELSE [ret |-> FALSE, table |-> [t EXCEPT !.m_init_flag = FALSE]]

\* set_all_vals(vals): [ret, table]
phot_set_all_vals(t, vals) ==
    IF Len(vals) = t.m_table.how_many_x * t.m_table.how_many_y
    THEN [ret |-> TRUE,
          table |-> [t EXCEPT !.m_table = phot_set_loop(t.m_table, vals, 0),
                              !.m_init_flag = TRUE]]
    ELSE [ret |-> FALSE, table |-> t]

\* serialize(): [exc, bytes]
phot_serialize(t) ==
    IF ~t.m_init_flag
    THEN [exc |-> "invalid_state", bytes |-> <<>>]
    ELSE [exc |-> "none",
          bytes |-> put_in(t.rs, 1) \o phot_put_params(t.m_params, t.rs)
                        \o T2_serialize(t.m_table, t.rs)]

\* ------------------------------------------------------------ state
VARIABLES
    tab,    \* the owning table object the caller holds
    res     \* the last call: its arguments and what it returned or threw

vars == <<tab, res>>

NoRes ==
    [op |-> "none", exc |-> "none", retb |-> FALSE, retv |-> 0,
     chi |-> 0, u |-> 0, is_out_in |-> "null", is_out |-> "null",
     idx |-> 0, bracketed |-> FALSE, log_frac |-> 0,
     lower_log_frac |-> 0, upper_log_frac |-> 0,
     vals |-> <<>>, coords |-> <<>>, bytes |-> <<>>, rs |-> 0, g |-> 0,
     flag_before |-> FALSE]

LogVector(v) == [i \in 1..Len(v) |-> m_log(v[i])]

\* what a read past the end of the table's vector may find; a single value
\* when the vector holds count elements and no such read happens
GarbageFor(t, count) ==
    IF Len(t.m_table.values) < count THEN Garbage ELSE {0}

\* byte vectors handed to a byte-array constructor whose minimum size is
\* min_size: the serialized table b, whole or cut short, with its first byte
\* kept or (when the writer's scalar size is the reader's) overwritten
Prefix(b, k) == SubSeq(b, 1, IF k < Len(b) THEN k ELSE Len(b))
Retag(b, t) == IF Len(b) = 0 THEN b ELSE [b EXCEPT ![1] = t]
RawInputs(b, min_size, same_size) ==
    {b, Prefix(b, min_size - 1)}
        \cup IF same_size
             THEN {Retag(b, 1), Retag(Prefix(b, min_size - 1), 1),
                   Prefix(b, min_size)}
             ELSE {}

\* the state after construction from parameters alone or from parameters and a
\* vector of stored (logarithmic) values, for either table and scalar size
Init ==
    \/ \E rs \in RealSizes, p \in DndtParams :
          \/ /\ tab = dndt_ctor_params(rs, p)
             /\ res = [NoRes EXCEPT !.op = "ctor_params"]
          \/ \E v \in ValVectors(p.chi_part_how_many, p.chi_part_how_many) :
                /\ tab = dndt_ctor_vals(rs, p, LogVector(v))
                /\ res = [NoRes EXCEPT !.op = "ctor_vals", !.vals = LogVector(v)]
    \/ \E rs \in RealSizes, p \in PhotParams :
          \/ /\ tab = phot_ctor_params(rs, p)
             /\ res = [NoRes EXCEPT !.op = "ctor_params"]
          \/ \E v \in ValVectors(p.chi_part_how_many * p.frac_how_many,
                                 p.frac_how_many) :
                /\ tab = phot_ctor_vals(rs, p, LogVector(v))
                /\ res = [NoRes EXCEPT !.op = "ctor_vals", !.vals = LogVector(v)]

\* ------------------------------------------------------------ dndt actions
\* the bytes come from a table with the parameters and samples of tab,
\* written with the scalar size w, and are read with the scalar size rs
dndt_ConstructBytes ==
    /\ tab.kind = "dndt"
    /\ \E rs \in RealSizes, w \in RealSizes :
          \E b \in {dndt_serialize(dndt_ctor_vals(w, tab.m_params,
                                                 tab.m_table.values)).bytes} :
             \E raw \in RawInputs(b, 1 + dndt_sizeof_params(rs), w = rs) :
                \E r \in {dndt_ctor_bytes(rs, raw)} :
                   /\ tab' = IF r.exc = "none" THEN r.table ELSE tab
                   /\ res' = [NoRes EXCEPT !.op = "ctor_bytes", !.exc = r.exc,
                                           !.bytes = raw, !.rs = rs,
                                           !.flag_before = tab.m_init_flag]

dndt_GetView ==
    /\ tab.kind = "dndt"
    /\ \E g \in GarbageFor(tab, tab.m_params.chi_part_how_many) :
          \E r \in {dndt_get_view(tab, g)} :
              res' = [NoRes EXCEPT !.op = "get_view", !.exc = r.exc, !.g = g,
                                   !.flag_before = tab.m_init_flag]
    /\ UNCHANGED tab

dndt_Interp ==
    /\ tab.kind = "dndt"
    /\ \E chi \in DndtChi, io \in IsOutArgs :
          \E r \in {dndt_interp(tab, chi, io)} :
              res' = [NoRes EXCEPT !.op = "interp", !.chi = chi,
                                   !.is_out_in = io, !.is_out = r.is_out,
                                   !.retv = r.ret,
                                   !.flag_before = tab.m_init_flag]
    /\ UNCHANGED tab

dndt_GetAllCoordinates ==
    /\ tab.kind = "dndt"
    /\ LET r == dndt_get_all_coordinates(tab)
       IN  res' = [NoRes EXCEPT !.op = "get_all_coordinates", !.exc = r.exc,
                                !.coords = r.coords,
                                !.flag_before = tab.m_init_flag]
    /\ UNCHANGED tab

dndt_SetAllVals ==
    /\ tab.kind = "dndt"
    /\ \E v \in ValVectors(tab.m_params.chi_part_how_many,
                           tab.m_params.chi_part_how_many) :
          \E r \in {dndt_set_all_vals(tab, v)} :
              /\ tab' = r.table
              /\ res' = [NoRes EXCEPT !.op = "set_all_vals", !.vals = v,
                                      !.retb = r.ret,
                                      !.flag_before = tab.m_init_flag]

dndt_Serialize ==
    /\ tab.kind = "dndt"
    /\ LET r == dndt_serialize(tab)
       IN  res' = [NoRes EXCEPT !.op = "serialize", !.exc = r.exc,
                                !.bytes = r.bytes,
                                !.flag_before = tab.m_init_flag]
    /\ UNCHANGED tab

\* ------------------------------------------------------------ phot actions
phot_ConstructBytes ==
    /\ tab.kind = "phot"
    /\ \E rs \in RealSizes, w \in RealSizes :
          \E b \in {phot_serialize(phot_ctor_vals(w, tab.m_params,
                                                 tab.m_table.values)).bytes} :
             \E raw \in RawInputs(b, 1 + phot_sizeof_params(rs), w = rs) :
                \E r \in {phot_ctor_bytes(rs, raw)} :
                   /\ tab' = IF r.exc = "none" THEN r.table ELSE tab
                   /\ res' = [NoRes EXCEPT !.op = "ctor_bytes", !.exc = r.exc,
                                           !.bytes = raw, !.rs = rs,
                                           !.flag_before = tab.m_init_flag]

phot_GetView ==
    /\ tab.kind = "phot"
    /\ \E g \in GarbageFor(tab, tab.m_params.chi_part_how_many
                                    * tab.m_params.frac_how_many) :
          \E r \in {phot_get_view(tab, g)} :
              res' = [NoRes EXCEPT !.op = "get_view", !.exc = r.exc, !.g = g,
                                   !.flag_before = tab.m_init_flag]
    /\ UNCHANGED tab

phot_Interp ==
    /\ tab.kind = "phot"
    /\ \E chi \in PhotChi, u \in PhotU, io \in IsOutArgs,
          g \in GarbageFor(tab, tab.m_params.chi_part_how_many
                                    * tab.m_params.frac_how_many) :
          \E r \in {phot_interp(tab, chi, u, io, g)} :
              res' = [NoRes EXCEPT !.op = "interp", !.chi = chi, !.u = u,
                                   !.is_out_in = io, !.is_out = r.is_out,
                                   !.retv = r.ret, !.idx = r.upper_frac_index,
                                   !.bracketed = r.bracketed,
                                   !.log_frac = r.log_frac,
                                   !.lower_log_frac = r.lower_log_frac,
                                   !.upper_log_frac = r.upper_log_frac,
                                   !.g = g,
                                   !.flag_before = tab.m_init_flag]
    /\ UNCHANGED tab

phot_GetAllCoordinates ==
    /\ tab.kind = "phot"
    /\ LET r == phot_get_all_coordinates(tab)
       IN  res' = [NoRes EXCEPT !.op = "get_all_coordinates", !.exc = r.exc,
                                !.coords = r.coords,
                                !.flag_before = tab.m_init_flag]
    /\ UNCHANGED tab

phot_SetAllVals ==
    /\ tab.kind = "phot"
    /\ \E v \in ValVectors(tab.m_params.chi_part_how_many
                               * tab.m_params.frac_how_many,
                           tab.m_params.frac_how_many) :
          \E r \in {phot_set_all_vals(tab, v)} :
              /\ tab' = r.table
              /\ res' = [NoRes EXCEPT !.op = "set_all_vals", !.vals = v,
                                      !.retb = r.ret,
                                      !.flag_before = tab.m_init_flag]

phot_Serialize ==
    /\ tab.kind = "phot"
    /\ LET r == phot_serialize(tab)
       IN  res' = [NoRes EXCEPT !.op = "serialize", !.exc = r.exc,
                                !.bytes = r.bytes,
                                !.flag_before = tab.m_init_flag]
    /\ UNCHANGED tab

Next ==
    \/ dndt_ConstructBytes
    \/ dndt_GetView
    \/ dndt_Interp
    \/ dndt_GetAllCoordinates
    \/ dndt_SetAllVals
    \/ dndt_Serialize
    \/ phot_ConstructBytes
    \/ phot_GetView
    \/ phot_Interp
    \/ phot_GetAllCoordinates
    \/ phot_SetAllVals
    \/ phot_Serialize

Spec == Init /\ [][Next]_vars

\* the tables the constructors from parameters and from parameters and values
\* build, and the former after a set_all_vals
Constructed ==
    UNION {{dndt_ctor_params(rs, p)}
             \cup {dndt_ctor_vals(rs, p, LogVector(v)) :
                     v \in ValVectors(p.chi_part_how_many, p.chi_part_how_many)}
             \cup {dndt_set_all_vals(dndt_ctor_params(rs, p), v).table :
                     v \in ValVectors(p.chi_part_how_many, p.chi_part_how_many)}
           : rs \in RealSizes, p \in DndtParams}
    \cup
    UNION {{phot_ctor_params(rs, p)}
             \cup {phot_ctor_vals(rs, p, LogVector(v)) :
                     v \in ValVectors(p.chi_part_how_many * p.frac_how_many,
                                      p.frac_how_many)}
             \cup {phot_set_all_vals(phot_ctor_params(rs, p), v).table :
                     v \in ValVectors(p.chi_part_how_many * p.frac_how_many,
                                      p.frac_how_many)}
           : rs \in RealSizes, p \in PhotParams}

\* ------------------------------------------------- concurrent readers
\* the grid's element count as the parameters give it
ParamCount(t) ==
    IF t.kind = "dndt" THEN t.m_params.chi_part_how_many
    ELSE t.m_params.chi_part_how_many * t.m_params.frac_how_many

\* Threads share one initialized table and call its read-only operations.
\* A call takes three steps: it reads the parameters and the flag, it reads
\* the samples, and it returns what the operation computes from what it read.
\* Here res[t] is the call of the thread t.
Threads == 1..NumThreads

ReadArgs ==
    {[op |-> "interp", chi |-> chi, u |-> Unit \div 2, io |-> "false"] :
        chi \in {Unit \div 4, 3 * Unit}}
    \cup {[op |-> o, chi |-> 0, u |-> 0, io |-> "null"] :
             o \in {"get_all_coordinates", "get_view"}}

\* what the read-only operation a returns on the table t
ReadCall(t, a, g) ==
    IF t.kind = "dndt"
    THEN CASE a.op = "interp" -> dndt_interp(t, a.chi, a.io)
           [] a.op = "get_all_coordinates" -> dndt_get_all_coordinates(t)
           [] OTHER -> dndt_get_view(t, g)
    ELSE CASE a.op = "interp" ->
                  LET r == phot_interp(t, a.chi, a.u, a.io, g)
                  IN  [ret |-> r.ret, is_out |-> r.is_out]
           [] a.op = "get_all_coordinates" -> phot_get_all_coordinates(t)
           [] OTHER -> phot_get_view(t, g)

\* a read-only operation that writes lowest() over the first sample
after_read_touching(t) == [t EXCEPT !.m_table.values[1] = Lowest]

\* the table after a call of interp, get_all_coordinates or get_view: they are
\* const member functions of a class that has no mutable member
after_read(t) == t

Idle == [pc |-> "idle", arg |-> CHOOSE a \in ReadArgs : a.op = "get_view",
         g |-> 0, seen |-> <<>>, ret |-> <<>>, overlap |-> FALSE]

Running(r) == r.pc \in {"params", "samples"}

\* the initialized tables of the largest resolution and the wider scalar
SharedTables ==
    {t \in Constructed :
        /\ t.m_init_flag
        /\ t.rs = 8
        /\ IF t.kind = "dndt" THEN t.m_params.chi_part_how_many = MaxHowMany
           ELSE t.m_params.frac_how_many = MaxHowMany}

InitConc ==
    /\ tab \in SharedTables
    /\ res = [t \in Threads |-> Idle]

\* the thread t enters an operation and reads m_params and m_init_flag
reader_Call(t) ==
    /\ ~Running(res[t])
    /\ \E a \in ReadArgs, g \in GarbageFor(tab, ParamCount(tab)) :
          res' = [u \in Threads |->
                    IF u = t
                    THEN [pc |-> "params", arg |-> a, g |-> g,
                          seen |-> [kind |-> tab.kind, rs |-> tab.rs,
                                    m_params |-> tab.m_params,
                                    m_init_flag |-> tab.m_init_flag],
                          ret |-> <<>>,
                          overlap |-> \E v \in Threads \ {t} : Running(res[v])]
                    ELSE IF Running(res[u])
                    THEN [res[u] EXCEPT !.overlap = TRUE]
                    ELSE res[u]]
    /\ UNCHANGED tab

\* the thread t reads the samples through m_table
reader_ReadSamples(t) ==
    /\ res[t].pc = "params"
    /\ res' = [res EXCEPT ![t].pc = "samples",
                          ![t].seen = [kind |-> @.kind, rs |-> @.rs,
                                       m_params |-> @.m_params,
                                       m_init_flag |-> @.m_init_flag,
                                       m_table |-> tab.m_table]]
    /\ UNCHANGED tab

\* the thread t returns from the operation
reader_Return(t) ==
    /\ res[t].pc = "samples"
    /\ res' = [res EXCEPT ![t].pc = "done",
                          ![t].ret = ReadCall(res[t].seen, res[t].arg, res[t].g)]
    /\ tab' = after_read(tab)

NextConc ==
    \E t \in Threads :
        \/ reader_Call(t)
        \/ reader_ReadSamples(t)
        \/ reader_Return(t)

SpecConc == InitConc /\ [][NextConc]_vars

\* ------------------------------------------------------------ claims
IsDndt == tab.kind = "dndt"
IsPhot == tab.kind = "phot"

MinSize(kind, rs) ==
    1 + (IF kind = "dndt" THEN dndt_sizeof_params(rs) ELSE phot_sizeof_params(rs))

ctor_bytes(t, rs, raw) ==
    IF t.kind = "dndt" THEN dndt_ctor_bytes(rs, raw) ELSE phot_ctor_bytes(rs, raw)

table_eq(a, b) ==
    IF a.kind = "dndt" THEN dndt_eq(a, b) ELSE phot_eq(a, b)

\* C1: after serialize() has returned the bytes of an initialized table, the
\* byte-array constructor of the same scalar size builds from these bytes a
\* table equal to it under operator==
C1_RoundTrip ==
    (res.op = "serialize" /\ res.exc = "none") =>
        LET r == ctor_bytes(tab, tab.rs, res.bytes)
        IN  r.exc = "none" /\ table_eq(r.table, tab)

\* C2: set_all_vals with a vector whose length differs from the grid's element
\* count of the parameters returns false, writes no sample and leaves the flag
C2_WrongLength ==
    [][(res'.op = "set_all_vals" /\ Len(res'.vals) # ParamCount(tab)) =>
          (res'.retb = FALSE /\ tab' = tab)]_vars

\* C3: a buffer of at least the minimum size whose first byte is not the
\* reader's scalar size is refused with format-mismatch and builds no table;
\* bytes written with an 8-byte scalar are never accepted by a 4-byte reader
C3_FormatMismatch ==
    [][res'.op = "ctor_bytes" =>
          /\ (Len(res'.bytes) >= MinSize(tab.kind, res'.rs)
                /\ res'.bytes[1] # res'.rs)
               => (res'.exc = "format_mismatch" /\ tab' = tab)
          /\ (Len(res'.bytes) >= 1 /\ res'.bytes[1] = 8 /\ res'.rs = 4)
               => (res'.exc # "none" /\ tab' = tab)]_vars

C3_Witness ==
    /\ res.op = "ctor_bytes" /\ res.rs = 4 /\ res.exc = "format_mismatch"
    /\ Len(res.bytes) >= MinSize(tab.kind, 8) /\ res.bytes[1] = 8
    /\ tab.m_init_flag

\* C4: a buffer shorter than 1 + sizeof(parameters) is refused with
\* truncated-data, whatever its first byte, and builds no table
C4_Truncated ==
    [][(res'.op = "ctor_bytes" /\ Len(res'.bytes) < MinSize(tab.kind, res'.rs)) =>
          (res'.exc = "truncated" /\ tab' = tab)]_vars

C4_Witness ==
    /\ res.op = "ctor_bytes" /\ res.exc = "truncated"
    /\ Len(res.bytes) = MinSize(tab.kind, res.rs) - 1
    /\ res.bytes[1] # res.rs

\* C5: get_view() and serialize() throw invalid-state on a table whose flag is
\* false, giving no view and no bytes, succeed on a table whose flag is true,
\* and leave the table as it was
C5_InvalidState ==
    [][res'.op \in {"get_view", "serialize"} =>
          /\ tab' = tab
          /\ ~tab.m_init_flag => (res'.exc = "invalid_state" /\ res'.bytes = <<>>)
          /\ tab.m_init_flag =>
                /\ res'.exc = "none"
                /\ res'.op = "serialize" => Len(res'.bytes) > MinSize(tab.kind, tab.rs)]_vars

C5_Witness ==
    /\ res.op \in {"get_view", "serialize"}
    /\ ~tab.m_init_flag
    /\ res.exc = "invalid_state"

\* C6 as claimed: get_all_coordinates on a table whose flag is false signals
\* invalid-state
C6_Original ==
    (res.op = "get_all_coordinates" /\ ~res.flag_before) =>
        res.exc = "invalid_state"

\* C6 amended: get_all_coordinates on a table whose flag is false signals no
\* failure: it returns one coordinate per grid point and leaves the table as
\* it was
C6_Amended ==
    [][(res'.op = "get_all_coordinates" /\ ~tab.m_init_flag) =>
          /\ tab' = tab
          /\ res'.exc = "none"
          /\ Len(res'.coords) = ParamCount(tab)]_vars

C6_Witness ==
    /\ res.op = "get_all_coordinates" /\ ~res.flag_before
    /\ res.exc = "none" /\ Len(res.coords) >= 2

\* the view get_view() returned in the last call: res.g is what lies in
\* memory past the owner's vector
LastView ==
    IF IsDndt THEN dndt_get_view(tab, res.g).view
    ELSE phot_get_view(tab, res.g).view

\* C7: the view returned by get_view() on an initialized owning table has the
\* owner's parameters, a true flag and the owner's sample sequence, and its
\* interp returns the owner's value and is_out outcome for every input
C7_ViewEquivalence ==
    (res.op = "get_view" /\ res.exc = "none") =>
        /\ LastView.m_params = tab.m_params
        /\ LastView.m_init_flag
        /\ LastView.m_table.values = tab.m_table.values
        /\ IsDndt => \A chi \in DndtChi, io \in IsOutArgs :
              dndt_interp(LastView, chi, io) = dndt_interp(tab, chi, io)
        /\ IsPhot => \A chi \in PhotChi, u \in PhotU, io \in IsOutArgs :
              LET v == phot_interp(LastView, chi, u, io, res.g)
                  o == phot_interp(tab, chi, u, io, res.g)
              IN  v.ret = o.ret /\ v.is_out = o.is_out

\* C8: on an initialized rate table, interp of a chi_part below chi_part_min
\* returns what interp(chi_part_min) returns, interp of a chi_part above
\* chi_part_max returns what interp(chi_part_max) returns, and in both cases a
\* non-null is_out is set to true
C8_Clamping ==
    (IsDndt /\ tab.m_init_flag /\ res.op = "interp") =>
        /\ res.chi < tab.m_params.chi_part_min =>
              /\ res.retv = dndt_interp(tab, tab.m_params.chi_part_min, "null").ret
              /\ res.is_out_in # "null" => res.is_out = "true"
        /\ res.chi > tab.m_params.chi_part_max =>
              /\ res.retv = dndt_interp(tab, tab.m_params.chi_part_max, "null").ret
              /\ res.is_out_in # "null" => res.is_out = "true"

C8_Witness ==
    /\ IsDndt /\ tab.m_init_flag /\ res.op = "interp"
    /\ res.chi > tab.m_params.chi_part_max
    /\ res.is_out_in = "false" /\ res.is_out = "true"
    /\ res.retv = dndt_interp(tab, tab.m_params.chi_part_max, "null").ret
    /\ res.retv # dndt_interp(tab, tab.m_params.chi_part_min, "null").ret

\* C9: in the cumulative-distribution table's interp, search index 0 returns
\* frac_min * chi_part and search index frac_how_many returns chi_part, with
\* the chi_part the caller passed, also when it lies outside the table
C9_Saturation ==
    (IsPhot /\ res.op = "interp") =>
        /\ res.idx = 0 => res.retv = Mul(tab.m_params.frac_min, res.chi)
        /\ res.idx = tab.m_params.frac_how_many => res.retv = res.chi

C9_Witness ==
    /\ IsPhot /\ res.op = "interp" /\ tab.m_init_flag
    /\ res.chi > tab.m_params.chi_part_max
    /\ res.idx = 0
    /\ res.retv = Mul(tab.m_params.frac_min, res.chi)
    /\ res.retv # Mul(tab.m_params.frac_min, tab.m_params.chi_part_max)

C11_FiniteSamples ==
    (IsPhot /\ res.op = "set_all_vals" /\ res.retb) =>
        /\ \A i \in 1..Len(tab.m_table.values) :
              tab.m_table.values[i] > NegInf
        /\ \A i \in 1..Len(res.vals) :
              /\ i <= Len(tab.m_table.values)
              /\ tab.m_table.values[i] =
                    (IF res.vals[i] = 0 THEN Lowest ELSE m_log(res.vals[i]))

\* C15: an initialized table stores as many samples as the grid of its
\* parameters has points, so the span of get_view() ends within the samples
C15_SampleCount ==
    tab.m_init_flag => Len(tab.m_table.values) = ParamCount(tab)

SameContent(a, b) ==
    /\ a.m_params = b.m_params
    /\ a.m_init_flag = b.m_init_flag
    /\ a.m_table.values = b.m_table.values

C16_FlagLifecycle ==
    /\ [](/\ res.op = "ctor_params" => ~tab.m_init_flag
          /\ res.op = "ctor_vals" => tab.m_init_flag
          /\ (res.op = "ctor_bytes" /\ res.exc = "none") => tab.m_init_flag
          /\ (res.op = "set_all_vals" /\ res.retb) => tab.m_init_flag)
    /\ [][/\ tab.m_init_flag => tab'.m_init_flag
          /\ (~tab.m_init_flag /\ tab'.m_init_flag) =>
                \/ res'.op = "set_all_vals" /\ res'.retb
                \/ res'.op = "ctor_bytes" /\ res'.exc = "none"]_vars

C16_Witness ==
    /\ res.op = "set_all_vals" /\ res.retb
    /\ ~res.flag_before /\ tab.m_init_flag

\* C17: interp leaves the caller's is_out as it was for a chi_part within
\* [chi_part_min, chi_part_max], bounds included, and whenever the pointer is
\* null; the only change it makes is to true, for a chi_part outside the table;
\* a search of the cumulative-distribution table that ends at 0 or at
\* frac_how_many changes nothing
C17_IsOutFrame ==
    res.op = "interp" =>
        LET inside == /\ tab.m_params.chi_part_min <= res.chi
                      /\ res.chi <= tab.m_params.chi_part_max
        IN  /\ res.is_out_in = "null" => res.is_out = "null"
            /\ inside => res.is_out = res.is_out_in
            /\ res.is_out # res.is_out_in => (res.is_out = "true" /\ ~inside)
            /\ res.is_out_in = "true" => res.is_out = "true"

C17_Witness ==
    /\ IsPhot /\ tab.m_init_flag /\ res.op = "interp"
    /\ res.chi = tab.m_params.chi_part_max
    /\ res.idx \in {0, tab.m_params.frac_how_many}
    /\ res.is_out_in = "false" /\ res.is_out = "false"

\* the column the last interp searched, and whether it is non-decreasing
LastColumn == phot_column(tab, m_log(phot_clamp(tab, res.chi)), res.g)

NonDecreasing(f, n) == \A i \in 0..(n - 2) : f[i] <= f[i + 1]

C13_ConcurrentReads ==
    /\ [][tab' = tab]_vars
    /\ [](\A t \in Threads :
            res[t].pc = "done" =>
                res[t].ret = ReadCall(tab, res[t].arg, res[t].g))

C13_Witness ==
    \E t \in Threads, u \in Threads :
        /\ t # u
        /\ res[t].pc = "done" /\ res[t].overlap /\ res[t].arg.op = "interp"
        /\ res[u].pc = "done" /\ res[u].overlap /\ res[u].arg.op = "get_view"
        /\ res[t].ret = ReadCall(tab, res[t].arg, res[t].g)
        /\ res[u].ret = ReadCall(tab, res[u].arg, res[u].g)

====
